---- MODULE Spec2Model ----
(***************************************************************************)
(* A model of caffeine's path-fork engine: TransformBuilder (recording of  *)
(* operations and the depth-first execute loop), the resolve / assign /    *)
(* read / write primitives, and InterpreterContext::log_failure.           *)
(*                                                                         *)
(* Addresses are AddrSpace-valued machine words.  There is one symbolic    *)
(* constant, p; a term is the linear expression  sym*p + k  (mod           *)
(* AddrSpace).  The solver is a black box that answers a query with its    *)
(* true kind (SAT / UNSAT over the finite models of p) or with Unknown.    *)
(***************************************************************************)
EXTENDS Integers, Sequences, FiniteSets, TLC

VARIABLES
    pc,          \* "build" | "run" | "done": where the caller of the builder is
    operations,  \* TransformBuilder::operations, the recorded pipeline
    outer,       \* *interp->ctx, the interpreter's own context
    stack,       \* execute's work-stack of ContextState (top = last element)
    output,      \* execute's output vector of Context
    result,      \* the ExecutionResult execute returned
    events,      \* deliveries to the failure logger and to the policy, in order
    step,        \* what the last iteration of execute's loop did (locals of the op)
    entry,       \* history: *interp->ctx as it was when execute was called
    hist,        \* history: every state taken from the work-stack, in order
    outMeta,     \* history: for each output context, the state it was owned by
    nextId,      \* history: number of ContextState objects constructed so far
    calls        \* history: the calls made on a frame or on the solver, with
                 \* what each returned (used by SpecFrame and SpecSolver)

vars == <<pc, operations, outer, stack, output, result, events, step, entry,
          hist, outMeta, nextId, calls>>

-----------------------------------------------------------------------------
(* Bounds of the model.                                                    *)

MaxOps == 2          \* longest recorded operation sequence
NumAllocs == 2       \* live allocations in the heap
AllocSz == 2         \* size in bytes of every allocation
AllocGap == 2        \* unallocated bytes after every allocation
MaxLen == 2         \* largest type store size used by an operation

AllocStride == AllocSz + AllocGap
AddrSpace == NumAllocs * AllocStride
Allocs == 1..NumAllocs
AllocBase(a) == (a - 1) * AllocStride
Lens == 1..MaxLen
Models == 0..(AddrSpace - 1)

Wrap(x) == ((x % AddrSpace) + AddrSpace) % AddrSpace

-----------------------------------------------------------------------------
(* Terms, pointers, values.                                                *)

Term(sym, k) == [sym |-> sym, k |-> Wrap(k)]
TermVal(t, m) == Wrap((IF t.sym THEN m ELSE 0) + t.k)

\* LLVMValue / Pointer.  t = "ptr": a pointer (resolved: alloc + offset
\* term; unresolved: address term in off).  t = "data": the result of a
\* typed read.  t = "imm": an immediate scalar.  t = "none": unbound.
Val(t, resolved, alloc, off, len, ver) ==
    [t |-> t, resolved |-> resolved, alloc |-> alloc, off |-> off,
     len |-> len, ver |-> ver]
NoValue == Val("none", FALSE, 0, Term(FALSE, 0), 0, 0)
UnresolvedPtr(addr) == Val("ptr", FALSE, 0, addr, 0, 0)
ResolvedPtr(a, off) == Val("ptr", TRUE, a, off, 0, 0)
Imm(k) == Val("imm", FALSE, 0, Term(FALSE, k), 0, 0)

-----------------------------------------------------------------------------
(* Assertions and their meaning under a model m of the symbol p.           *)

Asrt(kind, neg, ptr, alloc, len, set) ==
    [alloc |-> alloc, len |-> len, kind |-> kind, neg |-> neg, ptr |-> ptr,
     set |-> set]

\* Allocation::check_inbounds(offset, len):
\*   offset + len <= size /\ offset + len >= offset   (unsigned)
InboundsHolds(off, len, m) ==
    LET o == TermVal(off, m)
        e == Wrap(o + len)
    IN  e <= AllocSz /\ e >= o

\* ptr lies in allocation a: base <= address < base + size
InAllocHolds(addr, a, m) ==
    LET v == TermVal(addr, m)
    IN  AllocBase(a) <= v /\ v < AllocBase(a) + AllocSz

OffsetIn(addr, a) == Term(addr.sym, addr.k - AllocBase(a))

ValidHolds(ptr, len, m) ==
    IF ptr.resolved
    THEN InboundsHolds(ptr.off, len, m)
    ELSE \E a \in Allocs :
            /\ InAllocHolds(ptr.off, a, m)
            /\ InboundsHolds(OffsetIn(ptr.off, a), len, m)

Holds(a, m) ==
    LET raw ==
          CASE a.kind = "valid"    -> ValidHolds(a.ptr, a.len, m)
            [] a.kind = "inbounds" -> InboundsHolds(a.ptr.off, a.len, m)
            [] a.kind = "inalloc"  -> InAllocHolds(a.ptr.off, a.alloc, m)
            [] a.kind = "backprop" ->
                   TermVal(a.ptr.off, m)
                     = Wrap(AllocBase(a.alloc)
                            + TermVal(OffsetIn(a.ptr.off, a.alloc), m))
            [] a.kind = "in"       -> m \in a.set
            [] OTHER               -> TRUE
    IN  IF a.neg THEN ~raw ELSE raw

Not(a) == [a EXCEPT !.neg = ~a.neg]

\* A term without the symbol is a constant, and the IR folds an assertion
\* over constants to a boolean constant when it is constructed.
IsConstant(a) ==
    CASE a.kind = "in"    -> FALSE
      [] a.kind = "empty" -> FALSE
      [] OTHER            -> ~a.ptr.off.sym
IsConstantValue(a, b) == IsConstant(a) /\ (Holds(a, 0) = b)

\* AssertionList::insert: appends unless the assertion is trivially true.
ListInsert(list, a) ==
    IF a.kind = "empty" \/ IsConstantValue(a, TRUE) THEN list
    ELSE Append(list, a)

-----------------------------------------------------------------------------
(* The solver: a black box.  An answer is the true kind of the query or    *)
(* Unknown (a cancelled or undecided query).                               *)

SatModels(list, extra) ==
    {m \in Models : /\ \A i \in 1..Len(list) : Holds(list[i], m)
                    /\ Holds(extra, m)}
TrueKind(list, extra) == IF SatModels(list, extra) # {} THEN "SAT" ELSE "UNSAT"
\* a trivially false extra assertion is answered UNSAT without a query
Answers(list, extra) ==
    IF IsConstantValue(extra, FALSE) THEN {"UNSAT"}
    ELSE {TrueKind(list, extra), "Unknown"}
LeastModel(list, extra) ==
    CHOOSE m \in SatModels(list, extra) :
        \A n \in SatModels(list, extra) : m <= n

-----------------------------------------------------------------------------
(* Heap.                                                                   *)

\* MemHeap::check_valid(ptr, len)
CheckValid(ptr, len) == Asrt("valid", FALSE, ptr, 0, len, {})
\* Allocation::check_inbounds(offset, len) of allocation ptr.alloc
CheckInbounds(ptr, len) == Asrt("inbounds", FALSE, ptr, ptr.alloc, len, {})
\* the equality recorded by Context::backprop(unresolved, resolved)
Backprop(unresolved, ptr) == Asrt("backprop", FALSE, unresolved, ptr.alloc, 0, {})
\* the candidate query of MemHeap::resolve
InAlloc(ptr, a) == Asrt("inalloc", FALSE, ptr, a, 0, {})
\* an assertion of the program under test: p is one of the addresses in set
InSet(set) == Asrt("in", FALSE, UnresolvedPtr(Term(TRUE, 0)), 0, 0, set)

RECURSIVE SubSeqs(_)
\* every subsequence of s, the order of s kept
SubSeqs(s) ==
    IF s = <<>> THEN {<<>>}
    ELSE LET rest == SubSeqs(Tail(s))
         IN  rest \cup {<<Head(s)>> \o r : r \in rest}

RECURSIVE Feasible(_, _, _)
\* the allocations a..NumAllocs, in map order, in which ptr can lie
Feasible(ctx, ptr, a) ==
    IF a > NumAllocs THEN <<>>
    ELSE (IF TrueKind(ctx.pc, InAlloc(ptr, a)) = "SAT"
          THEN <<ResolvedPtr(a, OffsetIn(ptr.off, a))>> ELSE <<>>)
         \o Feasible(ctx, ptr, a + 1)

\* InterpreterContext::ptr_resolve -> MemHeap::resolve: the candidate
\* vectors it can return.  A resolved pointer is its own single candidate;
\* otherwise one solver query per live allocation, in the order of the
\* allocation map, and an allocation is kept when its query answers SAT (a
\* query answered Unknown drops it).
PtrResolve(ctx, ptr) ==
    IF ptr.resolved THEN {<<ptr>>}
    ELSE SubSeqs(Feasible(ctx, ptr, 1))

\* Allocation::read(offset, type, layout): the value read is named by the
\* allocation, the offset, the size and the number of writes it has seen.
AllocRead(ctx, ptr, len) ==
    Val("data", FALSE, ptr.alloc, ptr.off, len, Len(ctx.heap[ptr.alloc]))
\* Allocation::write(offset, type, value, heaps, layout)
AllocWrite(ctx, ptr, len, val) ==
    [ctx EXCEPT !.heap[ptr.alloc] =
        Append(@, [off |-> ptr.off, len |-> len, val |-> val])]

-----------------------------------------------------------------------------
(* Context: top stack frame, heap, path condition.                         *)

LValues == {"x", "ptr"}

Context(frame, heap, list) == [pc |-> list, heap |-> heap, frame |-> frame]

\* Context::add -> AssertionList::insert
Add(ctx, a) == [ctx EXCEPT !.pc = ListInsert(@, a)]

\* StackFrame::insert(value, expr)
FrameInsert(ctx, name, val) == [ctx EXCEPT !.frame[name] = val]

\* Context::fork(n): n independent copies of the context
Fork(ctx, n) == [k \in 1..n |-> ctx]

\* the pointer the program under test starts with, and what it knows of p
InitialPointers ==
    { UnresolvedPtr(Term(TRUE, 0)),
      ResolvedPtr(1, Term(FALSE, AllocSz - 1)) }
\* p is known to point into the first or the last allocation; the second
\* list also allows the address just past the first allocation
InAllocation == <<InSet({AllocBase(a) + 1 : a \in {1, NumAllocs}})>>
MaybePastEnd ==
    <<InSet({AllocBase(a) + 1 : a \in {1, NumAllocs}} \cup {AllocBase(1) + AllocSz})>>
InitialLists == {InAllocation, MaybePastEnd}
InitialContexts ==
    { Context([n \in LValues |-> IF n = "ptr" THEN qs[1] ELSE NoValue],
              [a \in Allocs |-> <<>>], qs[2]) :
        qs \in {s \in InitialPointers \X InitialLists :
                    \* what is known of p only matters to a pointer built on p
                    s[1].resolved => s[2] = InAllocation} }

-----------------------------------------------------------------------------
(* TransformBuilder: arguments, recorded operations, ContextState.         *)

\* Argument = llvm::Value* | TransformBuilder::Value
LirArg(name) == [name |-> name, lir |-> TRUE, index |-> 0]
ValArg(index) == [name |-> "", lir |-> FALSE, index |-> index]
NoArg == ValArg(0)

Operation(kind, ptr, val, target, len, die, imm) ==
    [len |-> len, kind |-> kind, ptr |-> ptr, val |-> val,
     target |-> target, die |-> die, imm |-> imm]

\* ContextState: owned context, instruction pointer, intermediate values;
\* id, from and path are history (which object this is, the object it was
\* forked from, the operations applied on the way to it).
ContextState(ctx, inst, values, id, from, path) ==
    [ctx |-> ctx, inst |-> inst, values |-> values, id |-> id, from |-> from,
     path |-> path]

\* ContextState::lookup
Lookup(state, arg) ==
    IF arg.lir THEN state.ctx.frame[arg.name] ELSE state.values[arg.index]

\* ContextState::insert
StateInsert(state, key, val) ==
    [state EXCEPT !.values = (key :> val) @@ @]

\* mutant: the clone starts without the intermediate values
StateFork_NoValues(state, newctx, id) ==
    ContextState(newctx, state.inst, <<>>, id, state.id, state.path)
\* ContextState::fork(newctx): a new object with the same instruction
\* pointer and values
StateFork(state, newctx, id) ==
    ContextState(newctx, state.inst, state.values, id, state.id, state.path)

\* ContextState::current
Current(state) == state.inst - 1

NoState ==
    ContextState(Context([n \in LValues |-> NoValue], [a \in Allocs |-> <<>>],
                         <<>>), 0, <<>>, 0 - 1, 0 - 1, <<>>)
NoStep ==
    [calls |-> <<>>, resolved |-> <<>>, kind |-> "none", state |-> NoState,
     check |-> "none", logres |-> "none", died |-> FALSE, pushed |-> 0]
NoResult == [kind |-> "none", contexts |-> <<>>]

Init ==
    /\ pc = "build"
    /\ operations = <<>>
    /\ outer \in InitialContexts
    /\ stack = <<>>
    /\ output = <<>>
    /\ result = NoResult
    /\ events = <<>>
    /\ step = NoStep
    /\ entry = outer
    /\ hist = <<>>
    /\ outMeta = <<>>
    /\ nextId = 0
    /\ calls = <<>>

-----------------------------------------------------------------------------
(* Recording operations (build time).                                      *)

\* TransformBuilder::transform_fork: append the operation; the Value
\* returned is its index
TransformFork(ops, op) == Append(ops, op)
ReturnedValue(ops) == Len(ops) - 1

\* Values handed out so far whose result is a (resolved) pointer / any value
PointerValues == {ValArg(i - 1) : i \in {j \in 1..Len(operations) :
                                          operations[j].kind = "resolve"}}
ResultValues == {ValArg(i - 1) : i \in {j \in 1..Len(operations) :
                                         operations[j].kind \in {"resolve", "read"}}}
PointerArgs == {LirArg("ptr")} \cup PointerValues
ResolvedArgs ==
    PointerValues \cup (IF outer.frame["ptr"].resolved THEN {LirArg("ptr")} ELSE {})

Record(op) ==
    /\ pc = "build"
    /\ Len(operations) < MaxOps
    /\ operations' = TransformFork(operations, op)
    /\ UNCHANGED <<pc, outer, stack, output, result, events, step, entry,
                   hist, outMeta, nextId, calls>>

\* TransformBuilder::resolve(pointer, type, die_on_failure)
BuildResolve ==
    \E arg \in PointerArgs, len \in Lens, die \in BOOLEAN :
        Record(Operation("resolve", arg, NoArg, "", len, die, NoValue))

\* TransformBuilder::assign(value, Argument)
BuildAssign ==
    \E arg \in PointerArgs \cup ResultValues :
        Record(Operation("assign", NoArg, arg, "x", 0, FALSE, NoValue))

\* TransformBuilder::assign(value, LLVMValue) and assign(value, LLVMScalar)
BuildAssignImm ==
    Record(Operation("assignimm", NoArg, NoArg, "x", 0, FALSE, Imm(1)))

\* TransformBuilder::read(arg, type)
BuildRead ==
    \E arg \in ResolvedArgs :
        Record(Operation("read", arg, NoArg, "", 1, FALSE, NoValue))

\* TransformBuilder::write(ptr, value, type)
BuildWrite ==
    \E arg \in ResolvedArgs, val \in ResultValues :
        Record(Operation("write", arg, val, "", 1, FALSE, NoValue))

-----------------------------------------------------------------------------
(* TransformBuilder::execute.                                              *)

Top == stack[Len(stack)]
Rest == SubSeq(stack, 1, Len(stack) - 1)

\* execute, line 44: the work-stack starts with one state that owns a
\* fork_once copy of the interpreter's context
Execute ==
    /\ pc = "build"
    /\ pc' = "run"
    /\ stack' = <<ContextState(outer, 0, <<>>, 0, 0 - 1, <<>>)>>
    /\ nextId' = 1
    /\ entry' = outer
    /\ UNCHANGED <<operations, outer, output, result, events, step, hist,
                   outMeta, calls>>

\* mutant: the end of the pipeline is taken one operation early
AtEnd_OneEarly(state) == state.inst + 1 >= Len(operations)
\* line 57
AtEnd(state) == state.inst >= Len(operations)

\* lines 62-63: the operation to run and the state handed to it
OpOf(state) == operations[state.inst + 1]
\* mutant: the instruction pointer is not advanced
Advance_NoIncrement(state) ==
    [state EXCEPT !.path = Append(@, state.inst)]
Advance(state) ==
    [state EXCEPT !.inst = @ + 1, !.path = Append(@, state.inst)]

Taken(check) ==
    Append(hist, [inst |-> Top.inst, id |-> Top.id, check |-> check])

\* lines 57-60: promote the owned context to the output
Promote ==
    /\ pc = "run" /\ stack # <<>>
    /\ AtEnd(Top)
    /\ stack' = Rest
    /\ output' = Append(output, Top.ctx)
    /\ outMeta' = Append(outMeta, [id |-> Top.id, from |-> Top.from,
                                   path |-> Top.path])
    /\ hist' = Taken("none")
    /\ step' = [NoStep EXCEPT !.kind = "promote", !.state = Top]
    /\ UNCHANGED <<pc, operations, outer, result, events, entry, nextId,
                   calls>>

\* TransformBuilder::transform(f): a non-forking operation runs f on the
\* state and hands the same state to insert_fn
TransformPush(rest, state) == Append(rest, state)

\* the body of assign(value, Argument)
AssignFn(state, op) ==
    [state EXCEPT !.ctx = FrameInsert(@, op.target, Lookup(state, op.val))]
\* the body of assign(value, LLVMValue)
AssignImmFn(state, op) ==
    [state EXCEPT !.ctx = FrameInsert(@, op.target, op.imm)]
\* the body of read(arg, type)
ReadFn(state, op) ==
    LET ptr == Lookup(state, op.ptr)
    IN  StateInsert(state, Current(state), AllocRead(state.ctx, ptr, op.len))
\* the body of write(ptr, value, type)
WriteFn(state, op) ==
    LET dst == Lookup(state, op.ptr)
        val == Lookup(state, op.val)
    IN  [state EXCEPT !.ctx = AllocWrite(@, dst, op.len, val)]

ApplyFn(state, op) ==
    CASE op.kind = "assign"    -> AssignFn(state, op)
      [] op.kind = "assignimm" -> AssignImmFn(state, op)
      [] op.kind = "read"      -> ReadFn(state, op)
      [] op.kind = "write"     -> WriteFn(state, op)

\* one iteration of execute's loop on a non-forking operation
RunTransform(kind) ==
    /\ pc = "run" /\ stack # <<>>
    /\ ~AtEnd(Top)
    /\ OpOf(Top).kind = kind
    /\ stack' = TransformPush(Rest, ApplyFn(Advance(Top), OpOf(Top)))
    /\ hist' = Taken("none")
    /\ step' = [NoStep EXCEPT !.kind = kind, !.state = Advance(Top),
                              !.pushed = Len(stack') - Len(Rest)]
    /\ UNCHANGED <<pc, operations, outer, output, result, events, entry,
                   outMeta, nextId, calls>>

ExecAssign == RunTransform("assign")
ExecAssignImm == RunTransform("assignimm")
ExecRead == RunTransform("read")
ExecWrite == RunTransform("write")

-----------------------------------------------------------------------------
(* InterpreterContext::log_failure and the resolve operation.              *)

Message == "invalid pointer load/store"

\* mutant: the deliveries are made whatever the resolve query answered
LogFailure_Always(state, assertion, message, r) ==
    << [id |-> state.id, assertion |-> assertion, sink |-> "logger",
        text |-> message, model |-> 0 - 1],
       [id |-> state.id, assertion |-> assertion, sink |-> "policy",
        text |-> "Fail", model |-> 0 - 1] >>
\* mutant: only an UNSAT answer suppresses the deliveries
LogFailure_UnlessUnsat(state, assertion, message, r) ==
    IF r = "UNSAT" THEN <<>>
    ELSE << [id |-> state.id, assertion |-> assertion, sink |-> "logger",
             text |-> message, model |-> 0 - 1],
            [id |-> state.id, assertion |-> assertion, sink |-> "policy",
             text |-> "Fail", model |-> 0 - 1] >>
\* mutant: the policy is told before the logger
LogFailure_PolicyFirst(state, assertion, message, r) ==
    IF r # "SAT" THEN <<>>
    ELSE << [id |-> state.id, assertion |-> assertion, sink |-> "policy",
             text |-> "Fail", model |-> 0 - 1],
            [id |-> state.id, assertion |-> assertion, sink |-> "logger",
             text |-> message,
             model |-> LeastModel(state.ctx.pc, assertion)] >>
\* log_failure(assertion, message) when its own resolve query answered r:
\* the deliveries it makes, in order
LogFailure(state, assertion, message, r) ==
    IF r # "SAT" THEN <<>>
    ELSE << [id |-> state.id, assertion |-> assertion, sink |-> "logger",
             text |-> message,
             model |-> LeastModel(state.ctx.pc, assertion)],
            [id |-> state.id, assertion |-> assertion, sink |-> "policy",
             text |-> "Fail", model |-> 0 - 1] >>

\* mutant: an Unknown answer is taken for a failure too
Failed_OrUnknown(r) == r \in {"SAT", "Unknown"}
\* resolve, lines 89-98: the failure branch is entered
Failed(r) == r = "SAT"
\* mutant: die_on_failure is ignored
Dies_Never(r, die) == FALSE
\* mutant: every reported failure kills the path
Dies_OnAnyFailure(r, die) == Failed(r)
\* resolve, lines 92-98: the path is killed
Dies(r, die) ==Failed(r) /\ die

\* resolve, lines 89-101: the collaborators the step calls, in order
ResolveCalls(r, die) ==
    <<"check">> \o (IF Failed(r) THEN <<"log_failure">> ELSE <<>>)
                \o (IF Dies(r, die) THEN <<>> ELSE <<"ptr_resolve">>)

\* mutant: the backprop equality is added before the in-bounds assertion
ResolveSuccessor_BackpropFirst(state, unresolved, fork, ptr, len, id) ==
    LET fork1 == IF ~unresolved.resolved
                 THEN Add(fork, Backprop(unresolved, ptr)) ELSE fork
        fork2 == Add(fork1, CheckInbounds(ptr, len))
    IN  StateInsert(StateFork(state, fork2, id), Current(state), ptr)
\* resolve, lines 105-115: the successor made from one fork of the context
\* and one candidate
ResolveSuccessor(state, unresolved, fork, ptr, len, id) ==
    LET fork1 == Add(fork, CheckInbounds(ptr, len))
        fork2 == IF ~unresolved.resolved
                 THEN Add(fork1, Backprop(unresolved, ptr)) ELSE fork1
    IN  StateInsert(StateFork(state, fork2, id), Current(state), ptr)

\* mutant: the state that was forked is handed to insert_fn as well
ResolveForks_KeepOriginal(state, unresolved, resolved, len, firstId) ==
    LET forks == Fork(state.ctx, Len(resolved))
    IN  [k \in 1..Len(resolved) |->
            ResolveSuccessor(state, unresolved, forks[k], resolved[k], len,
                             firstId + k - 1)]
        \o <<state>>
\* mutant: the loop over the candidates stops after the first one
ResolveForks_FirstOnly(state, unresolved, resolved, len, firstId) ==
    LET forks == Fork(state.ctx, Len(resolved))
    IN  [k \in 1..(IF Len(resolved) > 1 THEN 1 ELSE Len(resolved)) |->
            ResolveSuccessor(state, unresolved, forks[k], resolved[k], len,
                             firstId + k - 1)]
\* mutant: the forks are one shared context, so what is added to one fork
\* is seen by the forks handled after it
ResolveForks_SharedContext(state, unresolved, resolved, len, firstId) ==
    LET shared[k \in 0..Len(resolved)] ==
            IF k = 0 THEN state.ctx
            ELSE ResolveSuccessor(state, unresolved, shared[k - 1],
                                  resolved[k], len, firstId + k - 1).ctx
    IN  [k \in 1..Len(resolved) |->
            ResolveSuccessor(state, unresolved, shared[k - 1], resolved[k],
                             len, firstId + k - 1)]
\* mutant: the candidates are handed to insert_fn last to first
ResolveForks_Reversed(state, unresolved, resolved, len, firstId) ==
    LET forks == Fork(state.ctx, Len(resolved))
        n == Len(resolved)
    IN  [k \in 1..n |->
            ResolveSuccessor(state, unresolved, forks[n + 1 - k],
                             resolved[n + 1 - k], len, firstId + k - 1)]
\* resolve, lines 101-116: the states handed to insert_fn, in order
ResolveForks(state, unresolved, resolved, len, firstId) ==
    LET forks == Fork(state.ctx, Len(resolved))
    IN  [k \in 1..Len(resolved) |->
            ResolveSuccessor(state, unresolved, forks[k], resolved[k], len,
                             firstId + k - 1)]

\* one iteration of execute's loop on a resolve operation
ExecResolve ==
    /\ pc = "run" /\ stack # <<>>
    /\ ~AtEnd(Top)
    /\ OpOf(Top).kind = "resolve"
    /\ LET op == OpOf(Top)
           state == Advance(Top)
           unresolved == Lookup(state, op.ptr)
           assertion == CheckValid(unresolved, op.len)
       IN  \E r1 \in Answers(state.ctx.pc, Not(assertion)) :
           \E r2 \in (IF Failed(r1) THEN Answers(state.ctx.pc, Not(assertion))
                      ELSE {"none"}) :
           \E resolved \in (IF Dies(r1, op.die) THEN {<<>>}
                            ELSE PtrResolve(state.ctx, unresolved)) :
             LET pushed == IF Dies(r1, op.die) THEN <<>>
                           ELSE ResolveForks(state, unresolved, resolved,
                                             op.len, nextId)
             IN  /\ stack' = Rest \o pushed
                 /\ events' = events \o
                       (IF Failed(r1)
                        THEN LogFailure(state, Not(assertion), Message, r2)
                        ELSE <<>>)
                 /\ nextId' = nextId + Len(pushed)
                 /\ hist' = Taken(r1)
                 /\ step' = [calls |-> ResolveCalls(r1, op.die),
                             resolved |-> resolved, kind |-> "resolve",
                             state |-> state, check |-> r1, logres |-> r2,
                             died |-> Dies(r1, op.die),
                             pushed |-> Len(pushed)]
                 /\ UNCHANGED <<pc, operations, outer, output, result,
                                entry, outMeta, calls>>

\* mutant: the single output is not moved into the interpreter's context
ExecuteOuter_Keep(out, old) == old
\* mutant: an empty output is taken for the one-output case
ExecuteResult_EmptyContinues(out) ==
    IF Len(out) <= 1 THEN [kind |-> "Continue", contexts |-> <<>>]
    ELSE [kind |-> "Contexts", contexts |-> out]
\* mutant: the first output is moved into the interpreter's context
\* whenever there is one
ExecuteOuter_First(out, old) == IF Len(out) >= 1 THEN out[1] ELSE old
\* execute, lines 70-75
ExecuteOuter(out, old) == IF Len(out) = 1 THEN out[1] ELSE old
ExecuteResult(out) ==
    IF Len(out) = 1 THEN [kind |-> "Continue", contexts |-> <<>>]
    ELSE [kind |-> "Contexts", contexts |-> out]

Finish ==
    /\ pc = "run" /\ stack = <<>>
    /\ pc' = "done"
    /\ outer' = ExecuteOuter(output, outer)
    /\ result' = ExecuteResult(output)
    /\ UNCHANGED <<operations, stack, output, events, step, entry, hist,
                   outMeta, nextId, calls>>

Next ==
    \/ BuildResolve \/ BuildAssign \/ BuildAssignImm \/ BuildRead
    \/ BuildWrite \/ Execute
    \/ Promote \/ ExecAssign \/ ExecAssignImm \/ ExecRead \/ ExecWrite
    \/ ExecResolve \/ Finish

Spec == Init /\ [][Next]_vars

\* execute is sequential code: once called, its loop takes the next state or,
\* when the work-stack is empty, returns.  The operations and the solver
\* queries they make are synchronous and return.
ExecuteStep ==
    \/ Promote \/ ExecAssign \/ ExecAssignImm \/ ExecRead \/ ExecWrite
    \/ ExecResolve \/ Finish
SpecLive == Init /\ [][Next]_vars /\ WF_vars(ExecuteStep)

-----------------------------------------------------------------------------
(* Bindings in the top stack frame: InterpreterContext::insert, both       *)
(* overloads, and the assign step, applied to the interpreter's context.   *)

MaxCalls == 2        \* calls made on one frame / on one assertion list

\* the values an identifier is bound to
FrameValues == {Imm(1), Imm(2), ResolvedPtr(1, Term(FALSE, 0))}

\* mutant: std::map::insert, which keeps an existing binding
InsertOrAssign_KeepFirst(ctx, name, val) ==
    IF ctx.frame[name] # NoValue THEN ctx
    ELSE [ctx EXCEPT !.frame[name] = val]
\* InterpreterContext::insert(llvm::Value*, LLVMValue&&), lines 63-66:
\* top.variables.insert_or_assign(llvm, std::move(val))
InsertOrAssign(ctx, name, val) == [ctx EXCEPT !.frame[name] = val]

\* InterpreterContext::lookup
FrameLookup(ctx, name) == ctx.frame[name]

FrameCall(fn, name, val, after) ==
    /\ pc = "frame"
    /\ Len(calls) < MaxCalls
    /\ outer' = after
    /\ calls' = Append(calls, [val |-> val, name |-> name, fn |-> fn])
    /\ UNCHANGED <<pc, operations, stack, output, result, events, step,
                   entry, hist, outMeta, nextId>>

\* insert(llvm::Value*, LLVMValue&&)
InsertMove ==
    \E name \in LValues, val \in FrameValues :
        FrameCall("insert_move", name, val, InsertOrAssign(outer, name, val))
\* insert(llvm::Value*, const LLVMValue&): top_frame().insert(llvm, val)
InsertCopy ==
    \E name \in LValues, val \in FrameValues :
        FrameCall("insert_copy", name, val, FrameInsert(outer, name, val))
\* a pipeline of one assign(value, LLVMValue) step run on the context
AssignStep ==
    \E name \in LValues, val \in FrameValues :
        FrameCall("assign", name, val,
                  AssignImmFn(ContextState(outer, 1, <<>>, 0, 0 - 1, <<>>),
                              Operation("assignimm", NoArg, NoArg, name, 0,
                                        FALSE, val)).ctx)

FrameInit ==
    /\ pc = "frame"
    /\ operations = <<>>
    /\ outer \in InitialContexts
    /\ stack = <<>>
    /\ output = <<>>
    /\ result = NoResult
    /\ events = <<>>
    /\ step = NoStep
    /\ entry = outer
    /\ hist = <<>>
    /\ outMeta = <<>>
    /\ nextId = 0
    /\ calls = <<>>

FrameNext == InsertMove \/ InsertCopy \/ AssignStep

SpecFrame == FrameInit /\ [][FrameNext]_vars

-----------------------------------------------------------------------------
(* The solver facade: SolverResult, Solver::check, Z3Solver::check and     *)
(* Z3Solver::resolve, called on one assertion list with one extra          *)
(* assertion.                                                              *)

MaxAsserts == 2      \* longest assertion list handed to the solver

\* Assertion(): the empty assertion
EmptyAssertion == Asrt("empty", FALSE, UnresolvedPtr(Term(FALSE, 0)), 0, 0, {})
\* Assertion::is_constant_value(true); the empty assertion counts as true
\* (Z3Solver::resolve dereferences extra.value() of every other assertion)
IsTriviallyTrue(a) == a.kind = "empty" \/ IsConstantValue(a, TRUE)

\* constants: an access inside, and one past the end of, allocation 1
ConstTrue == CheckInbounds(ResolvedPtr(1, Term(FALSE, 0)), 1)
ConstFalse == CheckInbounds(ResolvedPtr(1, Term(FALSE, AllocSz)), 1)
\* p is in the first allocation / in the last / in either
InFirst == InSet({AllocBase(1) + 1})
InLast == InSet({AllocBase(NumAllocs) + 1})
InEither == InSet({AllocBase(1) + 1, AllocBase(NumAllocs) + 1})

\* AssertionList: the assertions and the length of the proven prefix
AssertionList(items, proven) == [items |-> items, proven |-> proven]
\* AssertionList::unproven
Unproven(al) == SubSeq(al.items, al.proven + 1, Len(al.items))
\* AssertionList::checkpoint
Checkpoint(al) == Len(al.items)
\* AssertionList::restore
Restore(al, c) ==
    AssertionList(SubSeq(al.items, 1, c),
                  IF al.proven < c THEN al.proven ELSE c)
\* AssertionList::insert
AssertionsInsert(al, a) == [al EXCEPT !.items = ListInsert(@, a)]
\* iteration over the list
Iterate(al) == SelectSeq(al.items, LAMBDA a : ~IsTriviallyTrue(a))

NoModel == 0 - 1
Kinds == {"SAT", "UNSAT", "Unknown"}
Aborted == [kind |-> "abort", model |-> NoModel]

\* SolverResult::SolverResult(Kind, std::unique_ptr<Model>)
SolverResult(kind, model) ==
    IF kind = "SAT" \/ model = NoModel THEN [kind |-> kind, model |-> model]
    ELSE Aborted

\* z3::solver::check on the assertions added: a query that is cancelled or
\* not decided is answered unknown
Z3Check(query, cancelled) ==
    IF query \in cancelled THEN "Unknown"
    ELSE TrueKind(query, EmptyAssertion)

Returned(res, al, queries) ==
    [result |-> res, list |-> al, queries |-> queries]

\* mutant: extra is left out of the query
Z3SolverResolve_WithoutExtra(al, extra, cancelled) ==
    IF IsConstantValue(extra, FALSE)
    THEN Returned(SolverResult("UNSAT", NoModel), al, <<>>)
    ELSE LET query == Iterate(al)
             r == Z3Check(query, cancelled)
         IN  Returned(IF r = "SAT"
                      THEN SolverResult("SAT",
                                        LeastModel(query, EmptyAssertion))
                      ELSE SolverResult(r, NoModel),
                      al, <<query>>)
\* Z3Solver::resolve
Z3SolverResolve(al, extra, cancelled) ==
    IF IsConstantValue(extra, FALSE)
    THEN Returned(SolverResult("UNSAT", NoModel), al, <<>>)
    ELSE LET query == Iterate(al) \o (IF IsTriviallyTrue(extra) THEN <<>>
                                      ELSE <<extra>>)
             r == Z3Check(query, cancelled)
         IN  Returned(IF r = "SAT"
                      THEN SolverResult("SAT",
                                        LeastModel(query, EmptyAssertion))
                      ELSE SolverResult(r, NoModel),
                      al, <<query>>)

\* mutant: no fast path for a trivially true extra assertion
Z3SolverCheck_AlwaysQueries(al, extra, cancelled) ==
    IF IsConstantValue(extra, FALSE)
    THEN Returned(SolverResult("UNSAT", NoModel), al, <<>>)
    ELSE LET checkpoint == Checkpoint(al)
             inserted == AssertionsInsert(al, extra)
             r == Z3SolverResolve(inserted, EmptyAssertion, cancelled)
         IN  Returned(SolverResult(r.result.kind, NoModel),
                      Restore(inserted, checkpoint), r.queries)
\* mutant: the guard that restores the checkpoint is left out
Z3SolverCheck_NoRestore(al, extra, cancelled) ==
    IF Unproven(al) = <<>> /\ IsTriviallyTrue(extra)
    THEN Returned(SolverResult("SAT", NoModel), al, <<>>)
    ELSE IF IsConstantValue(extra, FALSE)
    THEN Returned(SolverResult("UNSAT", NoModel), al, <<>>)
    ELSE LET inserted == AssertionsInsert(al, extra)
         IN  IF Unproven(inserted) = <<>>
             THEN Returned(SolverResult("SAT", NoModel), inserted, <<>>)
             ELSE LET r == Z3SolverResolve(inserted, EmptyAssertion,
                                           cancelled)
                  IN  Returned(SolverResult(r.result.kind, NoModel),
                               inserted, r.queries)
\* Z3Solver::check
Z3SolverCheck(al, extra, cancelled) ==
    IF Unproven(al) = <<>> /\ IsTriviallyTrue(extra)
    THEN Returned(SolverResult("SAT", NoModel), al, <<>>)
    ELSE IF IsConstantValue(extra, FALSE)
    THEN Returned(SolverResult("UNSAT", NoModel), al, <<>>)
    ELSE LET checkpoint == Checkpoint(al)
             inserted == AssertionsInsert(al, extra)
             restored == Restore(inserted, checkpoint)
         IN  IF Unproven(inserted) = <<>>
             THEN Returned(SolverResult("SAT", NoModel), restored, <<>>)
             ELSE LET r == Z3SolverResolve(inserted, EmptyAssertion,
                                           cancelled)
                  IN  Returned(SolverResult(r.result.kind, NoModel),
                               restored, r.queries)

\* mutant: the result of resolve is handed on whole
SolverCheck_KeepModel(al, extra, cancelled) ==
    Z3SolverResolve(al, extra, cancelled)
\* Solver::check(assertions, extra): SolverResult(resolve(..).kind())
SolverCheck(al, extra, cancelled) ==
    LET r == Z3SolverResolve(al, extra, cancelled)
    IN  Returned(SolverResult(r.result.kind, NoModel), r.list, r.queries)

\* the assertion lists handed to the solver; the proven prefix is satisfiable
SolverItems == {InFirst, InLast, ConstFalse}
SolverLists ==
    UNION {[1..n -> SolverItems] : n \in 0..MaxAsserts}
SolverInputs ==
    {AssertionList(items, proven) :
        items \in SolverLists, proven \in 0..MaxAsserts}
SolverExtras == {EmptyAssertion, ConstTrue, ConstFalse, InFirst, InEither}

NoArgs == [kind |-> "none", model |-> NoModel]

SolverCall(fn, args, r) ==
    /\ pc = "solver"
    /\ Len(calls) < MaxCalls
    /\ outer' = r.list
    /\ calls' = Append(calls, [result |-> r.result, fn |-> fn,
                               queries |-> r.queries, args |-> args])
    /\ UNCHANGED <<pc, operations, stack, output, result, events, step,
                   entry, hist, outMeta, nextId>>

\* solver.check(assertions, extra) on a Z3Solver
CallCheck ==
    SolverCall("Z3Solver::check", NoArgs,
               Z3SolverCheck(outer, entry.extra, entry.cancelled))
\* solver.resolve(assertions, extra) on a Z3Solver
CallResolve ==
    SolverCall("Z3Solver::resolve", NoArgs,
               Z3SolverResolve(outer, entry.extra, entry.cancelled))
\* check of a solver that does not override Solver::check
CallSolverCheck ==
    SolverCall("Solver::check", NoArgs,
               SolverCheck(outer, entry.extra, entry.cancelled))
\* SolverResult(kind, model)
Construct ==
    \E kind \in Kinds, model \in {NoModel, 0} :
        SolverCall("SolverResult", [kind |-> kind, model |-> model],
                   Returned(SolverResult(kind, model), outer, <<>>))

SolverInit ==
    /\ pc = "solver"
    /\ operations = <<>>
    /\ outer \in SolverInputs
    /\ outer.proven <= Len(outer.items)
    /\ TrueKind(SubSeq(outer.items, 1, outer.proven), EmptyAssertion) = "SAT"
    /\ stack = <<>>
    /\ output = <<>>
    /\ result = NoResult
    /\ events = <<>>
    /\ step = NoStep
    /\ \E extra \in SolverExtras :
           \E cancelled \in SUBSET {Iterate(outer),
                                    Iterate(outer) \o <<extra>>} :
               entry = [list |-> outer, extra |-> extra,
                        cancelled |-> cancelled]
    /\ hist = <<>>
    /\ outMeta = <<>>
    /\ nextId = 0
    /\ calls = <<>>

SolverNext == CallCheck \/ CallResolve \/ CallSolverCheck \/ Construct

SpecSolver == SolverInit /\ [][SolverNext]_vars

-----------------------------------------------------------------------------
(* Symbolic constants of one query: Z3OpVisitor::visitConstant and         *)
(* visitConstantArray fill the name-to-expression map that resolve hands   *)
(* to the model.                                                           *)

NumSymbols == 2      \* symbol names "0".."n-1" and symbol numbers 0..n-1

\* Symbol: numbered (a uint64) or named (here the name is a decimal numeral)
Symbol(numbered, n) == [n |-> n, numbered |-> numbered]
Symbols == {Symbol(b, n) : b \in BOOLEAN, n \in 0..(NumSymbols - 1)}

\* Type: kind and the widths type_to_sort reads
Type(kind, bitwidth, exponent, mantissa) ==
    [kind |-> kind, bitwidth |-> bitwidth, exponent |-> exponent,
     mantissa |-> mantissa]
IntTy(w) == Type("Integer", w, 0, 0)
FloatTy(e, m) == Type("FloatingPoint", e + m, e, m)
ArrayTy(w) == Type("Array", w, 0, 0)
PointerTy == Type("Pointer", 0, 0, 0)
ScalarTypes == {IntTy(8), IntTy(32), FloatTy(8, 24), PointerTy}
ArrayTypes == {ArrayTy(32), ArrayTy(64)}

\* op_name: std::variant<std::string, uint64_t>
op_name(symbol) ==
    IF symbol.numbered THEN <<"uint64", symbol.n>> ELSE <<"string", symbol.n>>

NoSort == [sort |-> "abort", domain |-> 0, range |-> 0]
\* type_to_sort: bv_sort(w) | fpa_sort(e, m) | array_sort(bv w, bv 8)
type_to_sort(type) ==
    CASE type.kind = "Integer" ->
             [sort |-> "bv", domain |-> type.bitwidth, range |-> 0]
      [] type.kind = "FloatingPoint" ->
             [sort |-> "fpa", domain |-> type.exponent,
              range |-> type.mantissa]
      [] type.kind = "Array" ->
             [sort |-> "array", domain |-> type.bitwidth, range |-> 8]
      [] OTHER -> NoSort

\* ctx->constant(name_to_symbol(name), sort)
Z3Constant(name, sort) == [name |-> name, sort |-> sort]
NoExpr == Z3Constant(<<"none", 0>>, NoSort)

\* constMap.find / constMap.insert
MapFind(map, name) == IF name \in DOMAIN map THEN map[name] ELSE NoExpr
MapInsert(map, name, expr) ==
    IF name \in DOMAIN map THEN map ELSE (name :> expr) @@ map

\* the map after a visit and the expression the visit returned
Visited(map, expr) == [map |-> map, expr |-> expr]

\* mutant: a constant is made at every visit
VisitConstantFn_NoReuse(map, symbol, type) ==
    LET name == op_name(symbol)
        sort == type_to_sort(type)
        expr == Z3Constant(name, sort)
    IN  IF sort = NoSort THEN Visited(map, NoExpr)
        ELSE Visited((name :> expr) @@ map, expr)
\* Z3OpVisitor::visitConstant and visitConstantArray (the same body)
VisitConstantFn(map, symbol, type) ==
    LET name == op_name(symbol)
        sort == type_to_sort(type)
        expr == Z3Constant(name, sort)
    IN  IF MapFind(map, name) # NoExpr
        THEN Visited(map, MapFind(map, name))
        ELSE IF sort = NoSort THEN Visited(map, NoExpr)
        ELSE Visited(MapInsert(map, name, expr), expr)

Visit(fn, symbol, type) ==
    LET r == VisitConstantFn(outer, symbol, type)
    IN  /\ pc = "visit"
        /\ Len(calls) < MaxCalls
        \* CAFFEINE_ABORT in type_to_sort ends the process
        /\ pc' = IF r.expr = NoExpr THEN "aborted" ELSE pc
        /\ outer' = r.map
        /\ calls' = Append(calls, [fn |-> fn, symbol |-> symbol,
                                   type |-> type, expr |-> r.expr])
        /\ UNCHANGED <<operations, stack, output, result, events, step,
                       entry, hist, outMeta, nextId>>

visitConstant ==
    \E symbol \in Symbols, type \in ScalarTypes :
        Visit("visitConstant", symbol, type)
visitConstantArray ==
    \E symbol \in Symbols, type \in ArrayTypes :
        Visit("visitConstantArray", symbol, type)
\* Z3Solver::resolve, case z3::sat: Z3Model(get_model(), std::move(constMap))
HandToModel ==
    /\ pc = "visit"
    /\ pc' = "model"
    /\ result' = outer
    /\ UNCHANGED <<operations, outer, stack, output, events, step, entry,
                   hist, outMeta, nextId, calls>>

VisitInit ==
    /\ pc = "visit"
    /\ operations = <<>>
    /\ outer = <<>>
    /\ stack = <<>>
    /\ output = <<>>
    /\ result = NoResult
    /\ events = <<>>
    /\ step = NoStep
    /\ entry = <<>>
    /\ hist = <<>>
    /\ outMeta = <<>>
    /\ nextId = 0
    /\ calls = <<>>

VisitNext == visitConstant \/ visitConstantArray \/ HandToModel

SpecVisit == VisitInit /\ [][VisitNext]_vars

-----------------------------------------------------------------------------
(* Constant folding of integer compares: constant_int_compare over         *)
(* llvm::APInt, a bit pattern of a given width.                            *)

MaxBits == 3         \* widest integer constant compared

ICmpOpcodes ==
    {"EQ", "NE", "SGE", "SGT", "SLE", "SLT", "UGE", "UGT", "ULE", "ULT"}

\* llvm::APInt: the bits of a w-bit pattern, as the number 0..2^w-1
APInts(w) == 0..(2 ^ w - 1)
\* APInt::isNegative: the top bit
IsNegative(w, x) == x >= 2 ^ (w - 1)
\* APInt::compare: -1, 0, 1 by the patterns read as unsigned numbers
Compare(w, lhs, rhs) ==
    IF lhs < rhs THEN 0 - 1 ELSE IF lhs > rhs THEN 1 ELSE 0
\* APInt::compareSigned: by the sign bits when they differ, else unsigned
CompareSigned(w, lhs, rhs) ==
    IF IsNegative(w, lhs) # IsNegative(w, rhs)
    THEN (IF IsNegative(w, lhs) THEN 0 - 1 ELSE 1)
    ELSE Compare(w, lhs, rhs)

\* mutant: every ordering predicate compares unsigned
constant_int_compare_unsigned(cmp, w, lhs, rhs) ==
    CASE cmp = "EQ" -> lhs = rhs
      [] cmp = "NE" -> lhs # rhs
      [] cmp \in {"SGE", "UGE"} -> Compare(w, lhs, rhs) >= 0
      [] cmp \in {"SGT", "UGT"} -> Compare(w, lhs, rhs) > 0
      [] cmp \in {"SLE", "ULE"} -> Compare(w, lhs, rhs) <= 0
      [] cmp \in {"SLT", "ULT"} -> Compare(w, lhs, rhs) < 0
\* constant_int_compare(cmp, lhs, rhs), lhs and rhs of width w
constant_int_compare(cmp, w, lhs, rhs) ==
    CASE cmp = "EQ" -> lhs = rhs
      [] cmp = "NE" -> lhs # rhs
      [] cmp = "SGE" -> CompareSigned(w, lhs, rhs) >= 0
      [] cmp = "SGT" -> CompareSigned(w, lhs, rhs) > 0
      [] cmp = "SLE" -> CompareSigned(w, lhs, rhs) <= 0
      [] cmp = "SLT" -> CompareSigned(w, lhs, rhs) < 0
      [] cmp = "UGE" -> Compare(w, lhs, rhs) >= 0
      [] cmp = "UGT" -> Compare(w, lhs, rhs) > 0
      [] cmp = "ULE" -> Compare(w, lhs, rhs) <= 0
      [] cmp = "ULT" -> Compare(w, lhs, rhs) < 0

\* one fold of icmp(cmp, const(lhs), const(rhs))
FoldCompare ==
    \E cmp \in ICmpOpcodes :
        /\ pc = "fold"
        /\ Len(calls) < MaxCalls
        /\ calls' = Append(calls,
                           [result |-> constant_int_compare(cmp, entry.w,
                                                            entry.lhs,
                                                            entry.rhs),
                            cmp |-> cmp])
        /\ UNCHANGED <<pc, operations, outer, stack, output, result, events,
                       step, entry, hist, outMeta, nextId>>

FoldInit ==
    /\ pc = "fold"
    /\ operations = <<>>
    /\ outer = <<>>
    /\ stack = <<>>
    /\ output = <<>>
    /\ result = NoResult
    /\ events = <<>>
    /\ step = NoStep
    /\ \E w \in 1..MaxBits :
           \E lhs \in APInts(w), rhs \in APInts(w) :
               entry = [w |-> w, lhs |-> lhs, rhs |-> rhs]
    /\ hist = <<>>
    /\ outMeta = <<>>
    /\ nextId = 0
    /\ calls = <<>>

FoldNext == FoldCompare

SpecFold == FoldInit /\ [][FoldNext]_vars

-----------------------------------------------------------------------------
(* Model decoding of floats: Z3Model::lookup of a float symbol, through    *)
(* z3_to_apfloat.  The numeral Z3 evaluated the symbol to is an input:     *)
(* its class, and what the Z3_fpa_get_numeral_* calls report for it.       *)

\* the fpa numerals of sort (ebits, sbits); sbits counts the leading bit
FpaNumerals ==
    {[exponent |-> e, ebits |-> eb, sbits |-> sb, class |-> c,
      significand |-> s, expOk |-> eo, sign |-> sg, signOk |-> so] :
        eb \in 2..MaxBits, sb \in 2..MaxBits,
        c \in {"nan", "inf", "finite"}, s \in 0..(2 ^ MaxBits - 1),
        e \in 0..(2 ^ MaxBits - 1), eo \in BOOLEAN, sg \in {0, 1},
        so \in BOOLEAN}

\* llvm::APInt(bits, value): the low bits of value
APInt(bits, value) == value % (2 ^ bits)
\* APInt::trunc(bits)
Trunc(x, bits) == x % (2 ^ bits)
\* APInt::getAllOnesValue(bits)
AllOnes(bits) == 2 ^ bits - 1

NoFloat == [ebits |-> 0, sbits |-> 0, bits |-> 0 - 1]

\* z3_to_apfloat(expr): the bit pattern of the APFloat returned
z3_to_apfloat(expr) ==
    LET sbits == expr.sbits
        ebits == expr.ebits
        isNan == expr.class = "nan"
        read == APInt(sbits, expr.significand)
        fixed == IF isNan /\ read = 0 THEN APInt(sbits, 1) ELSE read
        mantissa == Trunc(fixed, sbits - 1)
        exponent == IF isNan \/ expr.class = "inf" THEN AllOnes(ebits)
                    ELSE APInt(ebits, expr.exponent)
        sign == IF isNan THEN 0 ELSE expr.sign
        total == mantissa + exponent * 2 ^ (sbits - 1)
        signed == IF sign # 0 THEN total + 2 ^ (ebits + sbits - 1) ELSE total
    IN  IF expr.class = "finite" /\ ~expr.expOk THEN NoFloat
        ELSE IF ~isNan /\ ~expr.signOk THEN NoFloat
        ELSE [ebits |-> ebits, sbits |-> sbits, bits |-> signed]

\* Z3Model::lookup of a symbol whose constant is_fpa
LookupFloat ==
    /\ pc = "decode"
    /\ pc' = IF z3_to_apfloat(entry) = NoFloat THEN "aborted" ELSE "decoded"
    /\ result' = z3_to_apfloat(entry)
    /\ UNCHANGED <<operations, outer, stack, output, events, step, entry,
                   hist, outMeta, nextId, calls>>

FloatInit ==
    /\ pc = "decode"
    /\ operations = <<>>
    /\ outer = <<>>
    /\ stack = <<>>
    /\ output = <<>>
    /\ result = NoResult
    /\ events = <<>>
    /\ step = NoStep
    /\ entry \in FpaNumerals
    /\ entry.significand < 2 ^ entry.sbits
    /\ entry.exponent < 2 ^ entry.ebits
    /\ hist = <<>>
    /\ outMeta = <<>>
    /\ nextId = 0
    /\ calls = <<>>

FloatNext == LookupFloat

SpecFloat == FloatInit /\ [][FloatNext]_vars

-----------------------------------------------------------------------------
(* Properties.                                                             *)

NumOps == Len(operations)
FullPath == [k \in 1..NumOps |-> k - 1]
TakenAtEnd == {j \in 1..Len(hist) : hist[j].inst >= NumOps}
TakenByFork ==
    {j \in 1..Len(hist) :
        /\ hist[j].inst < NumOps
        /\ operations[hist[j].inst + 1].kind = "resolve"}
NonForking == {"assign", "assignimm", "read", "write"}
\* the last iteration of the loop ran a resolve operation on the state it took
ResolveRan == step.kind = "resolve"
\* the states the last iteration pushed, in the order it pushed them
Pushed == SubSeq(stack, Len(stack) - step.pushed + 1, Len(stack))

\* C1: a context is in the output exactly when its state was taken from the
\* work-stack with inst >= the number of operations, and the path of every
\* output context applied the operations 0..n-1 once each, in index order.
C1_OutputIffTakenAtEnd ==
    pc # "build" =>
        /\ Len(output) = Len(outMeta)
        /\ Len(outMeta) = Cardinality(TakenAtEnd)
        /\ {outMeta[i].id : i \in 1..Len(outMeta)}
              = {hist[j].id : j \in TakenAtEnd}
        /\ \A i \in 1..Len(outMeta) : outMeta[i].path = FullPath

C1_Witness ==
    /\ pc = "done"
    /\ NumOps >= 2
    /\ Len(output) >= 2
    /\ Cardinality(TakenAtEnd) < Len(hist)

\* C2: when execute ends with exactly one output context, the outer context
\* is that output context and the result is Continue, with no contexts in it.
C2_OneOutputContinues ==
    (pc = "done" /\ Len(output) = 1) =>
        /\ outer = output[1]
        /\ result.kind = "Continue"
        /\ result.contexts = <<>>

C2_Witness ==
    /\ pc = "done"
    /\ Len(output) = 1
    /\ outer # entry
    /\ result.kind = "Continue"

\* C3: when execute ends with zero or with two or more outputs, the result
\* is a multi-context result holding exactly the output contexts, in order,
\* and is not Continue.
C3_OtherwiseMultiContext ==
    (pc = "done" /\ Len(output) # 1) =>
        /\ result.kind = "Contexts"
        /\ result.contexts = output

C3_Witness ==
    /\ pc = "done"
    /\ Len(output) = 0
    /\ Len(hist) >= 2
    /\ result.kind = "Contexts"

\* C4: a state handed to a forking step is consumed: it is not on the
\* work-stack afterwards, it is never taken again (no later operation is
\* applied to it), and it never owns an output context; the states that
\* continue from it are the ones pushed through the insert callback.
C4_ForkedStateConsumed ==
    /\ \A j \in TakenByFork :
        /\ \A i \in 1..Len(stack) : stack[i].id # hist[j].id
        /\ \A i \in 1..Len(outMeta) : outMeta[i].id # hist[j].id
        /\ \A k \in 1..Len(hist) : k > j => hist[k].id # hist[j].id
    /\ ResolveRan =>
        \A i \in 1..Len(Pushed) :
            /\ Pushed[i].from = step.state.id
            /\ Pushed[i].id # step.state.id

C4_Witness ==
    \E j \in TakenByFork :
        /\ \E i \in 1..Len(outMeta) : outMeta[i].from = hist[j].id
        /\ \E i \in 1..Len(stack) : stack[i].from = hist[j].id

\* the operation the last iteration ran (step.state.inst is already advanced)
StepOp == operations[step.state.inst]
\* the failure logger / the policy was given a delivery about state id
LoggedFor(id) ==
    \E i \in 1..Len(events) :
        /\ events[i].sink = "logger"
        /\ events[i].id = id
        /\ events[i].text = "invalid pointer load/store"
NotifiedFor(id) ==
    \E i \in 1..Len(events) : events[i].sink = "policy" /\ events[i].id = id

\* C5: a non-forking step (assign, read, write) on the state at operation
\* index i leaves exactly one successor, the same state with instruction
\* pointer i + 1, in the place of the state it took; the states below it,
\* the number of live paths and the output are unchanged.
C5_NonForkingKeepsOnePath ==
    [][ ( /\ pc = "run" /\ stack # <<>>
          /\ Top.inst < NumOps
          /\ operations[Top.inst + 1].kind \in NonForking )
        => /\ Len(stack') = Len(stack)
           /\ SubSeq(stack', 1, Len(stack) - 1) = Rest
           /\ stack'[Len(stack)].id = Top.id
           /\ stack'[Len(stack)].inst = Top.inst + 1
           /\ stack'[Len(stack)].path = Append(Top.path, Top.inst)
           /\ output' = output ]_vars

C5_Witness ==
    /\ step.kind \in NonForking
    /\ Len(stack) >= 2
    /\ step.pushed = 1
    /\ Top.id = step.state.id

\* C6: when the resolve step is not ended by die_on_failure and heap
\* resolution returns N candidates, the step pushes exactly N states on top
\* of the states that were below the one it took, and the k-th of them binds
\* the k-th candidate, a pointer, under the index of the resolve operation;
\* with N = 0 nothing is pushed.
C6_OneSuccessorPerCandidate ==
    [][ (hist' # hist /\ step'.kind = "resolve" /\ ~step'.died)
        => LET n == Len(step'.resolved)
               below == Len(stack) - 1
           IN  /\ Len(stack') = below + n
               /\ SubSeq(stack', 1, below) = Rest
               /\ \A k \in 1..n :
                    LET s == stack'[below + k]
                    IN  /\ Top.inst \in DOMAIN s.values
                        /\ s.values[Top.inst] = step'.resolved[k]
                        /\ s.values[Top.inst].t = "ptr"
                        /\ s.values[Top.inst].resolved ]_vars

C6_Witness ==
    /\ ResolveRan /\ ~step.died
    /\ Len(step.resolved) = 2
    /\ Len(stack) = 2
    /\ Pushed[1].values[Current(step.state)] = step.resolved[1]
    /\ Pushed[2].values[Current(step.state)] = step.resolved[2]

\* C7: each successor pushed by the resolve step has the path condition of
\* the state that was forked, extended first by its own candidate's
\* check_inbounds(offset, store size) and then, exactly when the source
\* pointer was unresolved, by the backprop equality; nothing else is added.
C7_SuccessorPathCondition ==
    [][ (hist' # hist /\ step'.kind = "resolve" /\ ~step'.died)
        => LET op == operations[Top.inst + 1]
               source == Lookup(Top, op.ptr)
               below == Len(stack) - 1
           IN  \A k \in 1..Len(step'.resolved) :
                 LET cand == step'.resolved[k]
                     inb == ListInsert(Top.ctx.pc, CheckInbounds(cand, op.len))
                 IN  stack'[below + k].ctx.pc =
                        IF source.resolved THEN inb
                        ELSE ListInsert(inb, Backprop(source, cand)) ]_vars

C7_Witness ==
    /\ ResolveRan /\ ~step.died
    /\ step.pushed = 2
    /\ \A i \in 1..2 :
        /\ Len(Pushed[i].ctx.pc) = Len(step.state.ctx.pc) + 2
        /\ Pushed[i].ctx.pc[Len(step.state.ctx.pc) + 1].kind = "inbounds"
        /\ Pushed[i].ctx.pc[Len(step.state.ctx.pc) + 2].kind = "backprop"

\* C8: when check(not valid) answers SAT and die_on_failure is set, the
\* resolve step ends the path at once: heap resolution is not called, no
\* state is pushed, and no state or output context ever descends from the
\* state that was taken.
C8_DieOnFailureEndsPath ==
    /\ \A j \in TakenByFork :
        (hist[j].check = "SAT" /\ operations[hist[j].inst + 1].die) =>
            /\ \A i \in 1..Len(stack) :
                 stack[i].from # hist[j].id /\ stack[i].id # hist[j].id
            /\ \A i \in 1..Len(outMeta) :
                 outMeta[i].from # hist[j].id /\ outMeta[i].id # hist[j].id
    /\ (ResolveRan /\ step.check = "SAT" /\ StepOp.die) =>
            /\ step.died
            /\ step.pushed = 0
            /\ step.calls = <<"check", "log_failure">>

C8_Witness ==
    /\ pc = "done"
    /\ \E j \in TakenByFork :
        /\ hist[j].check = "SAT"
        /\ operations[hist[j].inst + 1].die
        /\ j < Len(hist)
    /\ Len(output) >= 1

\* C9 as stated: whenever check(not valid) answers SAT a failure with the
\* message is delivered to the failure logger for that path, and without
\* die_on_failure the step still pushes one successor per candidate.
C9_FailureAlwaysLogged ==
    (ResolveRan /\ step.check = "SAT") =>
        /\ LoggedFor(step.state.id)
        /\ ~StepOp.die => (~step.died /\ step.pushed = Len(step.resolved))

\* C9 amended: whenever check(not valid) answers SAT, log_failure is called
\* next, and the failure is delivered to the logger exactly when
\* log_failure's own resolve query answers SAT; without die_on_failure the
\* step then calls heap resolution and pushes one successor per candidate.
C9_FailureLoggedWhenResolved ==
    (ResolveRan /\ step.check = "SAT") =>
        /\ Len(step.calls) >= 2 /\ step.calls[2] = "log_failure"
        /\ LoggedFor(step.state.id) <=> step.logres = "SAT"
        /\ ~StepOp.die =>
            /\ ~step.died
            /\ step.calls = <<"check", "log_failure", "ptr_resolve">>
            /\ step.pushed = Len(step.resolved)
            /\ \A i \in 1..Len(Pushed) : Pushed[i].from = step.state.id

C9_Witness ==
    /\ ResolveRan /\ step.check = "SAT" /\ step.logres = "SAT"
    /\ ~StepOp.die
    /\ LoggedFor(step.state.id)
    /\ step.pushed >= 1

\* C10 as stated: when check(not valid) answers Unknown, the resolve step
\* reports a potential invalid-pointer failure.
C10_UnknownReported ==
    (ResolveRan /\ step.check = "Unknown") => LoggedFor(step.state.id)

\* C10 amended: when check(not valid) answers Unknown, the resolve step
\* reports nothing (log_failure is not called, neither the logger nor the
\* policy hears of the state), does not end the path even with
\* die_on_failure, and goes on to heap resolution.
C10_UnknownNotReported ==
    (ResolveRan /\ step.check = "Unknown") =>
        /\ ~LoggedFor(step.state.id)
        /\ ~NotifiedFor(step.state.id)
        /\ step.calls = <<"check", "ptr_resolve">>
        /\ ~step.died
        /\ step.pushed = Len(step.resolved)

C10_Witness ==
    /\ ResolveRan /\ step.check = "Unknown"
    /\ StepOp.die
    /\ step.pushed >= 1
    /\ events = <<>>

\* the deliveries made about state id, in order
EventsFor(id) == SelectSeq(events, LAMBDA e : e.id = id)

\* C11: an Unknown answer is not a failure.  When check(not valid) answers
\* Unknown the resolve step does not end the path, die_on_failure or not,
\* and its last call is heap resolution; and whenever log_failure's own
\* resolve query answers anything but SAT, nothing is delivered to the
\* logger or to the policy.
C11_UnknownIsNotFailure ==
    ResolveRan =>
        /\ step.check = "Unknown" =>
            /\ ~step.died
            /\ step.calls[Len(step.calls)] = "ptr_resolve"
        /\ (step.check = "SAT" /\ step.logres # "SAT") =>
            /\ step.calls[2] = "log_failure"
            /\ EventsFor(step.state.id) = <<>>

C11_Witness ==
    /\ ResolveRan /\ step.check = "SAT" /\ step.logres = "Unknown"
    /\ events = <<>>
    /\ \E j \in TakenByFork :
        /\ hist[j].check = "Unknown"
        /\ operations[hist[j].inst + 1].die
        /\ j < Len(hist)

\* C12: a log_failure call whose query is SAT delivers (model, context,
\* failure{assertion, message}) to the logger once and then Fail with the
\* same assertion to the policy once; every policy delivery directly follows
\* the logger delivery for the same context and assertion.
C12_LoggerThenPolicy ==
    /\ \A i \in 1..Len(events) :
        events[i].sink = "policy" =>
            /\ i > 1
            /\ events[i - 1].sink = "logger"
            /\ events[i - 1].id = events[i].id
            /\ events[i - 1].assertion = events[i].assertion
            /\ events[i].text = "Fail"
    /\ \A i, j \in 1..Len(events) :
        (events[i].sink = events[j].sink /\ events[i].id = events[j].id)
            => i = j
    /\ (ResolveRan /\ step.check = "SAT" /\ step.logres = "SAT") =>
        LET es == EventsFor(step.state.id)
            failed == Not(CheckValid(Lookup(step.state, StepOp.ptr),
                                     StepOp.len))
        IN  /\ Len(es) = 2
            /\ es[1].sink = "logger" /\ es[2].sink = "policy"
            /\ es[1].assertion = failed /\ es[2].assertion = failed
            /\ es[1].text = Message
            /\ es[1].model \in SatModels(step.state.ctx.pc, failed)

C12_Witness ==
    /\ pc = "done"
    /\ Len(events) >= 4
    /\ events[1].id # events[3].id
    /\ Len(output) >= 1

\* the steps whose state was reported to the policy as failed
Reported == {j \in TakenByFork : NotifiedFor(hist[j].id)}
\* state id, or a state forked from it, is on the work-stack or owns an output
LivesOn(id) ==
    \/ \E i \in 1..Len(stack) : stack[i].id = id \/ stack[i].from = id
    \/ \E i \in 1..Len(outMeta) : outMeta[i].id = id \/ outMeta[i].from = id

\* C13 as stated: once Fail has been reported for a path, neither its state
\* nor any state derived from it is operated on again or reaches the output.
C13_ReportedPathStops ==
    \A j \in Reported : ~LivesOn(hist[j].id)

\* C13 amended: once Fail has been reported for a state, that state itself
\* is never taken again, put back or output; with die_on_failure nothing
\* derived from it exists either, and without die_on_failure the step pushed
\* one successor per candidate, forked from it, and those continue.
C13_ReportedStateStops ==
    /\ \A j \in Reported :
        /\ \A k \in (j + 1)..Len(hist) : hist[k].id # hist[j].id
        /\ \A i \in 1..Len(stack) : stack[i].id # hist[j].id
        /\ \A i \in 1..Len(outMeta) : outMeta[i].id # hist[j].id
        /\ operations[hist[j].inst + 1].die => ~LivesOn(hist[j].id)
    /\ (ResolveRan /\ NotifiedFor(step.state.id) /\ ~StepOp.die) =>
        /\ ~step.died
        /\ step.pushed = Len(step.resolved)
        /\ \A i \in 1..Len(Pushed) :
            /\ Pushed[i].from = step.state.id
            /\ Pushed[i].inst = step.state.inst

C13_Witness ==
    /\ pc = "done"
    /\ \E j \in Reported :
        /\ ~operations[hist[j].inst + 1].die
        /\ \E i \in 1..Len(outMeta) :
            /\ outMeta[i].from = hist[j].id
            /\ Len(outMeta[i].path) > hist[j].inst + 1

\* some value of p satisfies every assertion of the list
Satisfiable(list) ==
    \E m \in Models : \A i \in 1..Len(list) : Holds(list[i], m)

\* C14: every candidate returned by heap resolution is in bounds for the
\* accessed size under the path condition, and every state on the
\* work-stack and every output context has a satisfiable path condition.
C14_SuccessorsSatisfiable ==
    /\ ResolveRan =>
        \A k \in 1..Len(step.resolved) :
            SatModels(step.state.ctx.pc,
                      CheckInbounds(step.resolved[k], StepOp.len)) # {}
    /\ \A i \in 1..Len(stack) : Satisfiable(stack[i].ctx.pc)
    /\ \A i \in 1..Len(output) : Satisfiable(output[i].pc)

\* the assertions the resolve step adds for candidate ptr
OwnAssertions(unresolved, ptr, len) ==
    {CheckInbounds(ptr, len)} \cup
    (IF unresolved.resolved THEN {} ELSE {Backprop(unresolved, ptr)})
\* the elements of a sequence
Range(s) == {s[i] : i \in 1..Len(s)}

\* C15: forked contexts are independent.  An iteration of the loop changes
\* nothing in the states below the one it took, in the outputs already made
\* or in the interpreter's outer context; and the successors a resolve step
\* pushes each hold the forked state's heap and frame and, of the
\* assertions the step added, only the ones of their own candidate.
C15_ForksIndependent ==
    [][ (pc = "run" /\ stack # <<>>) =>
          /\ Len(stack') >= Len(stack) - 1
          /\ SubSeq(stack', 1, Len(stack) - 1) = Rest
          /\ SubSeq(output', 1, Len(output)) = output
          /\ outer' = outer
          /\ step'.kind = "resolve" =>
              LET src == Lookup(step'.state, OpOf(Top).ptr)
                  len == OpOf(Top).len
                  new(k) == stack'[Len(stack) - 1 + k]
              IN  \A k \in 1..step'.pushed :
                    /\ new(k).ctx.heap = Top.ctx.heap
                    /\ new(k).ctx.frame = Top.ctx.frame
                    /\ \A l \in 1..step'.pushed :
                         l # k =>
                           (OwnAssertions(src, step'.resolved[l], len)
                              \ Range(Top.ctx.pc))
                             \cap Range(new(k).ctx.pc) = {}
      ]_vars

\* a write was applied to one of two successors of the same resolve step
\* while its sibling waits on the work-stack
C15_Witness ==
    /\ step.kind = "write"
    /\ Len(stack) = 2
    /\ stack[1].from = stack[2].from
    /\ stack[1].ctx.heap # stack[2].ctx.heap
    /\ stack[1].ctx.pc # stack[2].ctx.pc

\* C16: the order of exploration is fixed by the operations, the starting
\* context and the solver's answers.  Each iteration takes the state pushed
\* last; a resolve step pushes its successors in the order of the candidate
\* vector, which follows the allocation map; an output is appended behind
\* the outputs made before it; and the result holds the outputs in that
\* order.
C16_DeterministicOrder ==
    [][ /\ (pc = "run" /\ stack # <<>>) =>
            /\ hist' = Append(hist, [inst |-> stack[Len(stack)].inst,
                                     id |-> stack[Len(stack)].id,
                                     check |-> step'.check])
            /\ SubSeq(stack', 1, Len(stack) - 1)
                 = SubSeq(stack, 1, Len(stack) - 1)
            /\ \/ output' = output
               \/ /\ output' = Append(output, stack[Len(stack)].ctx)
                  /\ Len(stack') = Len(stack) - 1
            /\ step'.kind = "resolve" =>
                /\ Len(stack') = Len(stack) - 1 + step'.pushed
                /\ \A k \in 1..step'.pushed :
                    LET new == stack'[Len(stack) - 1 + k]
                    IN  /\ new.values[stack[Len(stack)].inst]
                             = step'.resolved[k]
                        /\ new.id = nextId + k - 1
                /\ \A k, l \in 1..Len(step'.resolved) :
                    k < l => step'.resolved[k].alloc < step'.resolved[l].alloc
        /\ (pc = "run" /\ stack = <<>>) =>
            /\ output' = output
            /\ result'.contexts = IF Len(output) = 1 THEN <<>> ELSE output
            /\ Len(output) = 1 => outer' = output[1]
      ]_vars

\* two successors of one resolve step both reached the output: the one
\* pushed last was taken, and output, first
C16_Witness ==
    /\ pc = "done"
    /\ Len(output) = 2
    /\ outMeta[1].from = outMeta[2].from
    /\ outMeta[1].id > outMeta[2].id
    /\ result.contexts = output
    /\ output[1] # output[2]

\* the calls that bound identifier name, in order
BindingsOf(name) == SelectSeq(calls, LAMBDA c : c.name = name)
\* the value identifier name was first bound to (NoValue: never bound)
FirstBinding(name) ==
    IF entry.frame[name] # NoValue THEN entry.frame[name]
    ELSE IF BindingsOf(name) # <<>> THEN BindingsOf(name)[1].val
    ELSE NoValue

\* C17 as stated: an identifier once bound is never reassigned; after any
\* sequence of insert calls and assign steps the value looked up is the one
\* given at its first binding.
C17_FirstBindingKept ==
    pc = "frame" =>
        \A name \in LValues : FrameLookup(outer, name) = FirstBinding(name)

\* C17 amended: insert (both overloads) and the assign step bind the
\* identifier to the value given, bound before or not; the value looked up
\* is the one given at its most recent binding.
C17_LastBindingWins ==
    pc = "frame" =>
        \A name \in LValues :
            FrameLookup(outer, name) =
                IF BindingsOf(name) # <<>>
                THEN BindingsOf(name)[Len(BindingsOf(name))].val
                ELSE entry.frame[name]

C17_Witness ==
    /\ pc = "frame"
    /\ Len(calls) = 2
    /\ calls[1].name = calls[2].name
    /\ calls[1].val # calls[2].val
    /\ calls[2].fn = "insert_move"
    /\ FrameLookup(outer, calls[1].name) = calls[2].val

\* the calls of function fn made so far
CallsOf(fn) == {i \in 1..Len(calls) : calls[i].fn = fn}
ExtraFalse == IsConstantValue(entry.extra, FALSE)
\* extra is trivially true and nothing of the list is unproven
NothingToProve == IsTriviallyTrue(entry.extra) /\ Unproven(entry.list) = <<>>
NoQuery(i) == calls[i].queries = <<>>

\* C18 as stated: check and resolve both answer UNSAT for a trivially false
\* extra assertion, and SAT for a trivially true one when unproven() is
\* empty, and in these cases the SMT solver is not queried.
C18_FastPathsOfBoth ==
    pc = "solver" =>
        \A i \in CallsOf("Z3Solver::check") \cup CallsOf("Z3Solver::resolve") :
            /\ ExtraFalse => calls[i].result.kind = "UNSAT" /\ NoQuery(i)
            /\ NothingToProve => calls[i].result.kind = "SAT" /\ NoQuery(i)

\* C18 amended: check and resolve both answer UNSAT, without a query, for a
\* trivially false extra assertion.  For a trivially true one with unproven()
\* empty only check answers SAT without a query; resolve poses one query, of
\* the assertions of the list, and answers SAT, or Unknown when the query is
\* cancelled or undecided.
C18_FastPaths ==
    pc = "solver" =>
        /\ \A i \in CallsOf("Z3Solver::check") \cup
                    CallsOf("Z3Solver::resolve") :
               ExtraFalse => calls[i].result.kind = "UNSAT" /\ NoQuery(i)
        /\ \A i \in CallsOf("Z3Solver::check") :
               NothingToProve => calls[i].result.kind = "SAT" /\ NoQuery(i)
        /\ \A i \in CallsOf("Z3Solver::resolve") :
               NothingToProve =>
                   /\ calls[i].queries = <<Iterate(entry.list)>>
                   /\ calls[i].result.kind =
                          IF Iterate(entry.list) \in entry.cancelled
                          THEN "Unknown" ELSE "SAT"

\* check and resolve were both called with a trivially true extra assertion
\* on a proven, non-empty list: check answered without a query, resolve
\* queried the SMT solver
C18_Witness ==
    /\ pc = "solver"
    /\ NothingToProve
    /\ entry.list.items # <<>>
    /\ Len(calls) = 2
    /\ calls[1].fn = "Z3Solver::check"
    /\ NoQuery(1)
    /\ calls[2].fn = "Z3Solver::resolve"
    /\ ~NoQuery(2)

\* C19: a SolverResult carries a model only when its kind is SAT.  No result
\* of check (Solver::check, Z3Solver::check) has a model, resolve returns a
\* model exactly when its kind is SAT, and constructing a result that is not
\* SAT with a model fails the constructor's assertion.
C19_ModelOnlyWhenSat ==
    pc = "solver" =>
        /\ \A i \in 1..Len(calls) :
               calls[i].result.model # NoModel =>
                   calls[i].result.kind = "SAT"
        /\ \A i \in CallsOf("Z3Solver::check") \cup CallsOf("Solver::check") :
               /\ calls[i].result.kind \in Kinds
               /\ calls[i].result.model = NoModel
        /\ \A i \in CallsOf("Z3Solver::resolve") :
               /\ calls[i].result.kind \in Kinds
               /\ calls[i].result.model # NoModel
                      <=> calls[i].result.kind = "SAT"
        /\ \A i \in CallsOf("SolverResult") :
               calls[i].result =
                   IF calls[i].args.kind # "SAT"
                        /\ calls[i].args.model # NoModel
                   THEN Aborted ELSE calls[i].args

\* resolve answered SAT with a model, and Solver::check, which forwards to
\* resolve, answered SAT on the same query
C19_Witness ==
    /\ pc = "solver"
    /\ Len(calls) = 2
    /\ calls[1].fn = "Z3Solver::resolve"
    /\ calls[1].result.kind = "SAT"
    /\ calls[1].result.model # NoModel
    /\ calls[2].fn = "Solver::check"
    /\ calls[2].result.kind = "SAT"
    /\ calls[2].queries = calls[1].queries

\* C20 as stated: on the same assertion list and extra assertion
\* Z3Solver::check returns the same kind as Z3Solver::resolve.
C20_SameKind ==
    pc = "solver" =>
        \A i \in CallsOf("Z3Solver::check"), j \in CallsOf("Z3Solver::resolve") :
            calls[i].result.kind = calls[j].result.kind

\* C20 amended: whenever Z3Solver::check queries the SMT solver it poses the
\* query resolve poses and returns the kind resolve returns, as Solver::check
\* always does; for a trivially false extra assertion both answer UNSAT.  For
\* a trivially true extra assertion with unproven() empty, check answers SAT
\* without a query, where resolve poses its query and answers SAT or Unknown.
C20_SameKindWhenQueried ==
    pc = "solver" =>
        /\ \A i \in CallsOf("Z3Solver::check"),
              j \in CallsOf("Z3Solver::resolve") :
               IF NothingToProve
               THEN /\ calls[i].result.kind = "SAT"
                    /\ calls[j].result.kind \in {"SAT", "Unknown"}
               ELSE /\ calls[i].result.kind = calls[j].result.kind
                    /\ calls[i].queries = calls[j].queries
        /\ \A i \in CallsOf("Solver::check"),
              j \in CallsOf("Z3Solver::resolve") :
               /\ calls[i].result.kind = calls[j].result.kind
               /\ calls[i].queries = calls[j].queries
        /\ outer = entry.list

\* check and resolve both posed the query of a list and an extra assertion
\* that are not trivial, and both answered UNSAT
C20_Witness ==
    /\ pc = "solver"
    /\ Len(calls) = 2
    /\ calls[1].fn = "Z3Solver::check"
    /\ calls[2].fn = "Z3Solver::resolve"
    /\ calls[1].queries = <<Append(entry.list.items, entry.extra)>>
    /\ calls[2].queries = calls[1].queries
    /\ entry.list.items # <<>>
    /\ entry.cancelled = {}
    /\ calls[1].result.kind = "UNSAT"
    /\ calls[2].result.kind = "UNSAT"

\* the first visit of the symbol visited at call i
FirstVisit(i) ==
    CHOOSE j \in 1..i :
        /\ calls[j].symbol = calls[i].symbol
        /\ \A k \in 1..(j - 1) : calls[k].symbol # calls[i].symbol
Visiting == pc \in {"visit", "model"}

\* C21: symbolic constants are materialized once per symbol.  The map holds
\* exactly one entry per distinct symbol visited (a named and a numbered
\* symbol are distinct), every visit of a symbol returns the expression made
\* at its first visit, and the map handed to the model holds every symbol
\* visited.
C21_OncePerSymbol ==
    Visiting =>
        /\ Cardinality(DOMAIN outer)
               = Cardinality({calls[i].symbol : i \in 1..Len(calls)})
        /\ \A i \in 1..Len(calls) :
               /\ calls[i].expr = calls[FirstVisit(i)].expr
               /\ calls[FirstVisit(i)].expr.sort
                      = type_to_sort(calls[FirstVisit(i)].type)
               /\ \E name \in DOMAIN outer : outer[name] = calls[i].expr
        /\ \A i, j \in 1..Len(calls) :
               calls[i].symbol # calls[j].symbol =>
                   calls[i].expr # calls[j].expr
        /\ pc = "model" => result = outer

\* the symbol named "0" and the symbol numbered 0 were visited, one as a
\* scalar and one as an array, and the map of both went to the model
C21_Witness ==
    /\ pc = "model"
    /\ Len(calls) = 2
    /\ calls[1].symbol = Symbol(FALSE, 0)
    /\ calls[2].symbol = Symbol(TRUE, 0)
    /\ calls[1].fn = "visitConstant"
    /\ calls[2].fn = "visitConstantArray"
    /\ Cardinality(DOMAIN result) = 2

\* the w-bit pattern x read as an unsigned / a two's-complement integer
AsUnsigned(w, x) == x
AsSigned(w, x) == IF x < 2 ^ (w - 1) THEN x ELSE x - 2 ^ w
\* the arithmetic rule of predicate cmp on the integers a and b
Arithmetic(cmp, a, b) ==
    CASE cmp \in {"EQ"} -> a = b
      [] cmp \in {"NE"} -> a # b
      [] cmp \in {"UGT", "SGT"} -> a > b
      [] cmp \in {"UGE", "SGE"} -> a >= b
      [] cmp \in {"ULT", "SLT"} -> a < b
      [] cmp \in {"ULE", "SLE"} -> a <= b
SignedPredicates == {"SGT", "SGE", "SLT", "SLE"}

\* C22: constant_int_compare(pred, a, b) is the comparison of a and b read
\* as unsigned integers for eq, ne and the u predicates, and as two's-
\* complement signed integers for the s predicates.
C22_FoldMatchesArithmetic ==
    pc = "fold" =>
        \A i \in 1..Len(calls) :
            calls[i].result =
                IF calls[i].cmp \in SignedPredicates
                THEN Arithmetic(calls[i].cmp, AsSigned(entry.w, entry.lhs),
                                AsSigned(entry.w, entry.rhs))
                ELSE Arithmetic(calls[i].cmp, AsUnsigned(entry.w, entry.lhs),
                                AsUnsigned(entry.w, entry.rhs))

\* slt(-1, 1) folded to true and ult(-1, 1) to false
C22_Witness ==
    /\ pc = "fold"
    /\ entry.w = MaxBits
    /\ AsSigned(entry.w, entry.lhs) = 0 - 1
    /\ entry.rhs = 1
    /\ Len(calls) = 2
    /\ calls[1].cmp = "SLT"
    /\ calls[1].result = TRUE
    /\ calls[2].cmp = "ULT"
    /\ calls[2].result = FALSE

\* the fields of the float decoded: sign | exponent | stored mantissa
ExponentField(f) == (f.bits \div 2 ^ (f.sbits - 1)) % 2 ^ f.ebits
MantissaField(f) == f.bits % 2 ^ (f.sbits - 1)
SignBit(f) == f.bits \div 2 ^ (f.ebits + f.sbits - 1)

\* C23: a NaN numeral, whatever significand in 0..2^sbits-1 the model
\* reports for it, is decoded to a float whose exponent field is all ones,
\* whose stored mantissa is not zero and whose sign bit is 0: never to an
\* infinity.
C23_NanDecodedAsNan ==
    (pc = "decoded" /\ entry.class = "nan") =>
        /\ ExponentField(result) = 2 ^ result.ebits - 1
        /\ MantissaField(result) # 0
        /\ SignBit(result) = 0

\* C24: Z3Solver::check leaves the caller's assertion list unchanged on
\* every return path: the same length and the same elements in the same
\* order.  The extra assertion is in the list only while the query is posed.
C24_CheckLeavesListUnchanged ==
    [][ CallCheck =>
            /\ Len(outer'.items) = Len(outer.items)
            /\ outer'.items = outer.items
            /\ LET call == calls'[Len(calls')]
               IN  (call.queries # <<>> /\ ~IsTriviallyTrue(entry.extra)) =>
                       call.queries
                           = <<Append(Iterate(outer), entry.extra)>>
      ]_vars

\* check posed the query of the list with the extra assertion appended, the
\* query was cancelled, and the list is what it was
C24_Witness ==
    /\ pc = "solver"
    /\ Len(calls) = 1
    /\ calls[1].fn = "Z3Solver::check"
    /\ calls[1].result.kind = "Unknown"
    /\ entry.list.items # <<>>
    /\ calls[1].queries = <<Append(entry.list.items, entry.extra)>>
    /\ outer = entry.list

\* the operations that bind a result, and the Values handed out at build
\* time for those among the first inst operations
ResultOps == {"resolve", "read"}
ResultKeys(inst) ==
    {i \in 0..(inst - 1) : operations[i + 1].kind \in ResultOps}
\* the arguments an operation looks up
UsedArgs(op) ==
    CASE op.kind = "resolve" -> {op.ptr}
      [] op.kind = "read"    -> {op.ptr}
      [] op.kind = "assign"  -> {op.val}
      [] op.kind = "write"   -> {op.ptr, op.val}
      [] OTHER               -> {}

\* C25: result ids line up between build time and execute time.  An
\* operation binds its result under its own index in the operation sequence,
\* the Value it returned when recorded; a successor made by
\* ContextState::fork has the instruction pointer and every earlier binding
\* of the state it came from; so every Value argument the next operation of
\* a state looks up is bound in that state, to the result of the operation
\* with that index on the same path.
C25_ResultIdsLineUp ==
    pc = "run" =>
        /\ \A k \in 1..Len(stack) :
               /\ DOMAIN stack[k].values = ResultKeys(stack[k].inst)
               /\ stack[k].inst < NumOps =>
                      \A arg \in UsedArgs(operations[stack[k].inst + 1]) :
                          ~arg.lir => arg.index \in DOMAIN stack[k].values
        /\ step.kind \in NonForking \cup {"resolve"} =>
               \A k \in 1..Len(Pushed) :
                   /\ Pushed[k].inst = step.state.inst
                   /\ \A i \in DOMAIN step.state.values :
                          Pushed[k].values[i] = step.state.values[i]
                   /\ StepOp.kind = "resolve" =>
                          Pushed[k].values[step.state.inst - 1]
                              = step.resolved[k]
                   /\ StepOp.kind = "read" =>
                          Pushed[k].values[step.state.inst - 1]
                              = AllocRead(step.state.ctx,
                                          Lookup(step.state, StepOp.ptr),
                                          StepOp.len)

\* after a resolve that forked, the second operation read through the
\* Value the resolve returned: the state read its own candidate, and the
\* state below it holds another one under the same index
C25_Witness ==
    /\ pc = "run"
    /\ step.kind = "read"
    /\ StepOp.ptr = ValArg(0)
    /\ Len(stack) = 2
    /\ DOMAIN Top.values = {0, 1}
    /\ DOMAIN stack[1].values = {0}
    /\ Top.values[0] # stack[1].values[0]
    /\ Top.inst = 2

RECURSIVE TreeSize(_)
\* the nodes of the largest fork tree over n operations: every forking step
\* pushes at most one state per allocation
TreeSize(n) == IF n = 0 THEN 1 ELSE 1 + NumAllocs * TreeSize(n - 1)

\* every state on the work-stack is past the operation that produced it
PastProducer ==
    \A k \in 1..Len(stack) :
        /\ stack[k].inst = Len(stack[k].path)
        /\ stack[k].path # <<>> =>
               stack[k].inst > stack[k].path[Len(stack[k].path)]
        /\ stack[k].inst <= NumOps

\* C26: execute terminates.  Every state on the work-stack has an
\* instruction pointer greater than the index of the operation that
\* produced it, the number of states taken from the work-stack is bounded by
\* the size of the fork tree, and a call of execute eventually returns.
C26_ExecuteTerminates ==
    /\ [](pc = "run" => PastProducer /\ Len(hist) <= TreeSize(NumOps))
    /\ (pc = "run") ~> (pc = "done")

\* execute returned after a resolve forked and both successors ran the
\* second operation
C26_Witness ==
    /\ pc = "done"
    /\ NumOps = 2
    /\ Len(hist) >= 5
    /\ stack = <<>>

\* C27: execute works on a copy of the interpreter's context.  The first
\* state on the work-stack holds a context equal to the outer one; no
\* iteration of the loop changes the outer context; the only step that
\* changes it is the return with exactly one output, which stores that
\* output; and while execute runs, and after it returned with zero or with
\* two or more outputs, the outer context is the one execute was called with.
C27_OuterOnlyReplaced ==
    /\ []((pc = "run" \/ (pc = "done" /\ Len(output) # 1)) => outer = entry)
    /\ [][ /\ (pc = "build" /\ pc' = "run") =>
                /\ stack'[1].ctx = outer
                /\ outer' = outer
           /\ (pc = "run" /\ stack # <<>>) => outer' = outer
           /\ outer' # outer =>
                /\ pc = "run" /\ stack = <<>> /\ pc' = "done"
                /\ Len(output) = 1
                /\ outer' = output[1]
         ]_vars

\* execute returned two outputs, both with a heap and a path condition that
\* differ from the outer context's, which is as it was before the call
C27_Witness ==
    /\ pc = "done"
    /\ Len(output) = 2
    /\ outer = entry
    /\ \A k \in 1..2 :
         /\ output[k].heap # entry.heap
         /\ output[k].pc # entry.pc

\* C28: the expression returned for a symbolic constant has the sort of that
\* constant's own type, also for two constants that carry the same symbol
\* but different types.
C28_SortOfOwnType ==
    Visiting =>
        \A i \in 1..Len(calls) :
            calls[i].expr.sort = type_to_sort(calls[i].type)

====
